---------------------------- MODULE Spec2Model ----------------------------
(***************************************************************************)
(* A model of main.py: the SQLQueryGenerator class (the registry           *)
(* self.tables, add_table, parse_query and the four _generate_* builders)  *)
(* and the POST /process-query handler that drives the module-level        *)
(* instance query_generator.                                               *)
(*                                                                         *)
(* A Python str is modelled as a sequence of one-character strings, so     *)
(* that lower(), the `in` substring test, split(), strip(), join() and the *)
(* f-string templates are computed character by character.  A Dict[str,    *)
(* str] is modelled as the sequence of its (key, value) pairs in insertion *)
(* order, with pairwise distinct keys.                                     *)
(***************************************************************************)
EXTENDS Naturals, Sequences, FiniteSets

VARIABLES
    tables,     \* self.tables of query_generator: table name -> column map
    latest,     \* history: table name -> columns of its most recent registration
    call,       \* the most recent call, its arguments and its outcome
    inflight    \* client -> the request it has sent and the response it got

vars == <<tables, latest, call, inflight>>

---------------------------------------------------------------------------
(* Python str and list operations used by main.py *)

Range(s) == {s[i] : i \in DOMAIN s}

UpperCase == <<"A","B","C","D","E","F","G","H","I","J","K","L","M",
               "N","O","P","Q","R","S","T","U","V","W","X","Y","Z">>
LowerCase == <<"a","b","c","d","e","f","g","h","i","j","k","l","m",
               "n","o","p","q","r","s","t","u","v","w","x","y","z">>

\* The lowercase form of each uppercase letter
ToLower == [ch \in Range(UpperCase) |->
               LowerCase[CHOOSE i \in DOMAIN UpperCase : UpperCase[i] = ch]]

lower_char(ch) == IF ch \in DOMAIN ToLower THEN ToLower[ch] ELSE ch

\* str.lower()
lower(s) == [i \in DOMAIN s |-> lower_char(s[i])]

\* s[i:i+len(w)] == w
MatchAt(s, w, i) == SubSeq(s, i, i + Len(w) - 1) = w

\* `w in s` for two strs
Contains(s, w) ==
    /\ Len(w) <= Len(s)
    /\ \E i \in 1..(Len(s) - Len(w) + 1) : MatchAt(s, w, i)

\* s.find(w) + 1, for a w that occurs in s
FindFirst(s, w) == CHOOSE i \in 1..(Len(s) - Len(w) + 1) :
    /\ MatchAt(s, w, i)
    /\ \A k \in 1..(i - 1) : ~MatchAt(s, w, k)

\* s.split(w) for a non-empty separator w: the pieces between the
\* non-overlapping occurrences of w, found from the left
RECURSIVE split(_, _)
split(s, w) ==
    IF ~Contains(s, w) THEN <<s>>
    ELSE LET i == FindFirst(s, w)
         IN  <<SubSeq(s, 1, i - 1)>> \o split(SubSeq(s, i + Len(w), Len(s)), w)

Whitespace == {" ", "\t", "\n", "\r", "\f"}

\* str.strip()
RECURSIVE lstrip(_)
lstrip(s) == IF s # <<>> /\ Head(s) \in Whitespace THEN lstrip(Tail(s)) ELSE s

RECURSIVE rstrip(_)
rstrip(s) ==
    IF s # <<>> /\ s[Len(s)] \in Whitespace THEN rstrip(SubSeq(s, 1, Len(s) - 1)) ELSE s

strip(s) == rstrip(lstrip(s))

\* sep.join(parts)
RECURSIVE join(_, _)
join(sep, parts) ==
    IF parts = <<>> THEN <<>>
    ELSE IF Len(parts) = 1 THEN parts[1]
    ELSE parts[1] \o sep \o join(sep, Tail(parts))

\* list(d.keys()) of a dict given as its sequence of (key, value) pairs
keys(d) == [i \in DOMAIN d |-> d[i][1]]

\* any(word in query for word in words)
any_in(words, query) == \E i \in DOMAIN words : Contains(query, words[i])

---------------------------------------------------------------------------
(* Outcomes of a call: a returned value or a raised exception *)

Return(v) == [exc |-> "none", value |-> v]
Raise(e, msg) == [exc |-> e, value |-> msg]

---------------------------------------------------------------------------
(* class SQLQueryGenerator *)

SelectWords == <<<<"s", "h", "o", "w">>, <<"s", "e", "l", "e", "c", "t">>, <<"g", "e", "t">>, <<"f", "i", "n", "d">>, <<"d", "i", "s", "p", "l", "a", "y">>>>
InsertWords == <<<<"a", "d", "d">>, <<"i", "n", "s", "e", "r", "t">>, <<"c", "r", "e", "a", "t", "e">>>>
UpdateWords == <<<<"u", "p", "d", "a", "t", "e">>, <<"m", "o", "d", "i", "f", "y">>, <<"c", "h", "a", "n", "g", "e">>>>
DeleteWords == <<<<"d", "e", "l", "e", "t", "e">>, <<"r", "e", "m", "o", "v", "e">>>>

\* Mutant of add_table: an existing entry is updated in place (dict.update),
\* keeping the columns the new map does not name
add_table_merge(tbls, table_name, columns) ==
    LET old == IF table_name \in DOMAIN tbls THEN tbls[table_name] ELSE <<>>
        kept == [i \in DOMAIN old |->
                    IF \E j \in DOMAIN columns : columns[j][1] = old[i][1]
                    THEN columns[CHOOSE j \in DOMAIN columns : columns[j][1] = old[i][1]]
                    ELSE old[i]]
        new == SelectSeq(columns, LAMBDA pair : \A i \in DOMAIN old : old[i][1] # pair[1])
    IN  [t \in DOMAIN tbls \cup {table_name} |->
            IF t = table_name THEN kept \o new ELSE tbls[t]]

\* self.tables[table_name] = columns
add_table(tbls, table_name, columns) ==
    [t \in DOMAIN tbls \cup {table_name} |->
        IF t = table_name THEN columns ELSE tbls[t]]

\* Mutant of _generate_select: the column name is matched as registered,
\* not lowercased
_generate_select_case_sensitive(tbls, query, table_name) ==
    LET table_columns == tbls[table_name]
        matched == SelectSeq(keys(table_columns), LAMBDA col : Contains(query, col))
        columns == IF matched = <<>> THEN <<<<"*">>>> ELSE matched
        conditions == IF Contains(query, <<"w", "h", "e", "r", "e">>)
                      THEN <<strip(split(query, <<"w", "h", "e", "r", "e">>)[2])>>
                      ELSE <<>>
        sql == <<"S", "E", "L", "E", "C", "T", " ">> \o join(<<",", " ">>, columns) \o <<" ", "F", "R", "O", "M", " ">> \o table_name
    IN  (IF conditions # <<>>
         THEN sql \o <<" ", "W", "H", "E", "R", "E", " ">> \o join(<<" ", "A", "N", "D", " ">>, conditions)
         ELSE sql) \o <<";">>

\* Mutant of _generate_select: no "*" when no column matches
_generate_select_no_star(tbls, query, table_name) ==
    LET table_columns == tbls[table_name]
        columns == SelectSeq(keys(table_columns), LAMBDA col : Contains(query, lower(col)))
        conditions == IF Contains(query, <<"w", "h", "e", "r", "e">>)
                      THEN <<strip(split(query, <<"w", "h", "e", "r", "e">>)[2])>>
                      ELSE <<>>
        sql == <<"S", "E", "L", "E", "C", "T", " ">> \o join(<<",", " ">>, columns) \o <<" ", "F", "R", "O", "M", " ">> \o table_name
    IN  (IF conditions # <<>>
         THEN sql \o <<" ", "W", "H", "E", "R", "E", " ">> \o join(<<" ", "A", "N", "D", " ">>, conditions)
         ELSE sql) \o <<";">>

_generate_select(tbls, query, table_name) ==
    LET table_columns == tbls[table_name]
        matched == SelectSeq(keys(table_columns), LAMBDA col : Contains(query, lower(col)))
        columns == IF matched = <<>> THEN <<<<"*">>>> ELSE matched
        conditions == IF Contains(query, <<"w", "h", "e", "r", "e">>)
                      THEN <<strip(split(query, <<"w", "h", "e", "r", "e">>)[2])>>
                      ELSE <<>>
        sql == <<"S", "E", "L", "E", "C", "T", " ">> \o join(<<",", " ">>, columns) \o <<" ", "F", "R", "O", "M", " ">> \o table_name
    IN  (IF conditions # <<>>
         THEN sql \o <<" ", "W", "H", "E", "R", "E", " ">> \o join(<<" ", "A", "N", "D", " ">>, conditions)
         ELSE sql) \o <<";">>

\* Mutant of _generate_insert: one placeholder whatever the columns
_generate_insert_single_value(tbls, query, table_name) ==
    LET columns == keys(tbls[table_name])
    IN  <<"I", "N", "S", "E", "R", "T", " ", "I", "N", "T", "O", " ">> \o table_name \o <<" ", "(">> \o join(<<",", " ">>, columns)
        \o <<")", " ", "V", "A", "L", "U", "E", "S", " ", "(", "%", "s", ")", ";">>

_generate_insert(tbls, query, table_name) ==
    LET columns == keys(tbls[table_name])
        placeholders == [i \in 1..Len(columns) |-> <<"%", "s">>]
    IN  <<"I", "N", "S", "E", "R", "T", " ", "I", "N", "T", "O", " ">> \o table_name \o <<" ", "(">> \o join(<<",", " ">>, columns)
        \o <<")", " ", "V", "A", "L", "U", "E", "S", " ", "(">> \o join(<<",", " ">>, placeholders) \o <<")", ";">>

_generate_update(tbls, query, table_name) ==
    LET columns == keys(tbls[table_name])
        set_clause == join(<<",", " ">>, [i \in DOMAIN columns |-> columns[i] \o <<" ", "=", " ", "%", "s">>])
    IN  <<"U", "P", "D", "A", "T", "E", " ">> \o table_name \o <<" ", "S", "E", "T", " ">> \o set_clause
        \o <<" ", "W", "H", "E", "R", "E", " ", "c", "o", "n", "d", "i", "t", "i", "o", "n", " ", "=", " ", "%", "s", ";">>

_generate_delete(tbls, query, table_name) ==
    <<"D", "E", "L", "E", "T", "E", " ", "F", "R", "O", "M", " ">> \o table_name \o <<" ", "W", "H", "E", "R", "E", " ", "c", "o", "n", "d", "i", "t", "i", "o", "n", " ", "=", " ", "%", "s", ";">>

\* Mutant of parse_query: the DELETE keywords are tried first
parse_query_delete_first(tbls, natural_query, table_name) ==
    IF table_name \notin DOMAIN tbls
    THEN Raise("ValueError", <<"T", "a", "b", "l", "e", " ", "'">> \o table_name \o <<"'", " ", "n", "o", "t", " ", "f", "o", "u", "n", "d">>)
    ELSE LET query == lower(natural_query)
         IN  IF any_in(DeleteWords, query)
             THEN Return(_generate_delete(tbls, query, table_name))
             ELSE IF any_in(SelectWords, query)
             THEN Return(_generate_select(tbls, query, table_name))
             ELSE IF any_in(InsertWords, query)
             THEN Return(_generate_insert(tbls, query, table_name))
             ELSE IF any_in(UpdateWords, query)
             THEN Return(_generate_update(tbls, query, table_name))
             ELSE Raise("ValueError", <<"C", "o", "u", "l", "d", " ", "n", "o", "t", " ", "d", "e", "t", "e", "r", "m", "i", "n", "e", " ", "q", "u", "e", "r", "y", " ", "t", "y", "p", "e">>)

\* Mutant of parse_query: the table is looked up only once the sentence is
\* classified
parse_query_classify_first(tbls, natural_query, table_name) ==
    LET query == lower(natural_query)
        found == table_name \in DOMAIN tbls
        missing == Raise("ValueError", <<"T", "a", "b", "l", "e", " ", "'">> \o table_name \o <<"'", " ", "n", "o", "t", " ", "f", "o", "u", "n", "d">>)
    IN  IF any_in(SelectWords, query)
        THEN IF found THEN Return(_generate_select(tbls, query, table_name)) ELSE missing
        ELSE IF any_in(InsertWords, query)
        THEN IF found THEN Return(_generate_insert(tbls, query, table_name)) ELSE missing
        ELSE IF any_in(UpdateWords, query)
        THEN IF found THEN Return(_generate_update(tbls, query, table_name)) ELSE missing
        ELSE IF any_in(DeleteWords, query)
        THEN IF found THEN Return(_generate_delete(tbls, query, table_name)) ELSE missing
        ELSE Raise("ValueError", <<"C", "o", "u", "l", "d", " ", "n", "o", "t", " ", "d", "e", "t", "e", "r", "m", "i", "n", "e", " ", "q", "u", "e", "r", "y", " ", "t", "y", "p", "e">>)

parse_query(tbls, natural_query, table_name) ==
    IF table_name \notin DOMAIN tbls
    THEN Raise("ValueError", <<"T", "a", "b", "l", "e", " ", "'">> \o table_name \o <<"'", " ", "n", "o", "t", " ", "f", "o", "u", "n", "d">>)
    ELSE LET query == lower(natural_query)
         IN  IF any_in(SelectWords, query)
             THEN Return(_generate_select(tbls, query, table_name))
             ELSE IF any_in(InsertWords, query)
             THEN Return(_generate_insert(tbls, query, table_name))
             ELSE IF any_in(UpdateWords, query)
             THEN Return(_generate_update(tbls, query, table_name))
             ELSE IF any_in(DeleteWords, query)
             THEN Return(_generate_delete(tbls, query, table_name))
             ELSE Raise("ValueError", <<"C", "o", "u", "l", "d", " ", "n", "o", "t", " ", "d", "e", "t", "e", "r", "m", "i", "n", "e", " ", "q", "u", "e", "r", "y", " ", "t", "y", "p", "e">>)

---------------------------------------------------------------------------
(* POST /process-query *)

HTTPException(status_code, detail) ==
    [status |-> status_code, message |-> <<>>, sql_query |-> <<>>, detail |-> detail]

\* Mutant of try_block: the table is registered only when it is not yet
\* (setdefault)
try_block_setdefault(tbls, request, stdout_ok) ==
    IF ~stdout_ok
    THEN [tables |-> tbls, outcome |-> Raise("OSError", <<"B", "r", "o", "k", "e", "n", " ", "p", "i", "p", "e">>)]
    ELSE LET added == IF request.table_name \in DOMAIN tbls THEN tbls
                      ELSE add_table(tbls, request.table_name, request.columns)
         IN  [tables |-> added,
              outcome |-> parse_query(added, request.natural_query, request.table_name)]

\* Mutant of try_block: the registration is undone when parse_query raises
try_block_rollback(tbls, request, stdout_ok) ==
    IF ~stdout_ok
    THEN [tables |-> tbls, outcome |-> Raise("OSError", <<"B", "r", "o", "k", "e", "n", " ", "p", "i", "p", "e">>)]
    ELSE LET added == add_table(tbls, request.table_name, request.columns)
             outcome == parse_query(added, request.natural_query, request.table_name)
         IN  [tables |-> IF outcome.exc = "none" THEN added ELSE tbls,
              outcome |-> outcome]

\* The body of the try block: print(request), add_table, parse_query.
\* print raises OSError when the write to stdout fails (stdout_ok = FALSE),
\* before the registry is touched.
try_block(tbls, request, stdout_ok) ==
    IF ~stdout_ok
    THEN [tables |-> tbls, outcome |-> Raise("OSError", <<"B", "r", "o", "k", "e", "n", " ", "p", "i", "p", "e">>)]
    ELSE LET added == add_table(tbls, request.table_name, request.columns)
         IN  [tables |-> added,
              outcome |-> parse_query(added, request.natural_query, request.table_name)]

\* Mutant of respond: ValueError has no except clause of its own
respond_no_400(request, outcome) ==
    IF outcome.exc = "none"
    THEN [status |-> 200,
          message |-> <<"T", "a", "b", "l", "e", " ", "'">> \o request.table_name
                      \o <<"'", " ", "a", "d", "d", "e", "d", " ", "a", "n", "d", " ", "q", "u", "e", "r", "y", " ", "g", "e", "n", "e", "r", "a", "t", "e", "d", " ", "s", "u", "c", "c", "e", "s", "s", "f", "u", "l", "l", "y">>,
          sql_query |-> outcome.value,
          detail |-> <<>>]
    ELSE HTTPException(500, outcome.value)

\* The return statement and the two except clauses
respond(request, outcome) ==
    IF outcome.exc = "none"
    THEN [status |-> 200,
          message |-> <<"T", "a", "b", "l", "e", " ", "'">> \o request.table_name
                      \o <<"'", " ", "a", "d", "d", "e", "d", " ", "a", "n", "d", " ", "q", "u", "e", "r", "y", " ", "g", "e", "n", "e", "r", "a", "t", "e", "d", " ", "s", "u", "c", "c", "e", "s", "s", "f", "u", "l", "l", "y">>,
          sql_query |-> outcome.value,
          detail |-> <<>>]
    ELSE IF outcome.exc = "ValueError"
    THEN HTTPException(400, outcome.value)
    ELSE HTTPException(500, outcome.value)

process_query(tbls, request, stdout_ok) ==
    LET done == try_block(tbls, request, stdout_ok)
    IN  [tables |-> done.tables, outcome |-> done.outcome,
         response |-> respond(request, done.outcome)]

---------------------------------------------------------------------------
(* Inputs *)

MaxWords == 2

TableNames == {<<"u", "s", "e", "r", "s">>, <<"o", "r", "d", "e", "r", "s">>}

\* (column name, type label) pairs a request may carry
Columns == {<<<<"N", "a", "m", "e">>, <<"v", "a", "r", "c", "h", "a", "r">>>>,
            <<<<"a", "g", "e">>, <<"i", "n", "t">>>>,
            <<<<"a", "g", "e">>, <<"v", "a", "r", "c", "h", "a", "r">>>>}

\* Dict[str, str]: pairs in insertion order, keys pairwise distinct
ColumnMaps ==
    UNION {{d \in [1..n -> Columns] :
               \A i, j \in 1..n : i # j => d[i][1] # d[j][1]}
           : n \in 0..Cardinality(Columns)}

RECURSIVE concat(_)
concat(ws) == IF ws = <<>> THEN <<>> ELSE Head(ws) \o concat(Tail(ws))

\* A sentence opens with one of the keywords of parse_query (or with none)
\* and goes on with up to MaxWords further words.
Openers == Range(SelectWords) \cup Range(InsertWords) \cup Range(UpdateWords)
           \cup Range(DeleteWords) \cup {<<>>, <<"l", "i", "s", "t">>}
Words == {<<" ">>, <<"w", "h", "e", "r", "e">>, <<"N", "a", "m", "e">>, <<"a", "g", "e">>,
          <<"S", "e", "l", "e", "c", "t">>, <<"a", "d", "d", "r", "e", "s", "s">>, <<"c", "h", "a", "n", "g", "e">>}

Sentences ==
    {o \o concat(ws) : o \in Openers, ws \in UNION {[1..n -> Words] : n \in 0..MaxWords}}

\* The sentences sent to the running service: one per outcome of parse_query
Queries == {<<"S", "h", "o", "w", " ", "a", "g", "e", " ", "N", "a", "m", "e">>,
            <<"a", "d", "d", " ", "a", " ", "u", "s", "e", "r">>,
            <<"l", "i", "s", "t">>}

Requests == [natural_query : Queries, table_name : TableNames, columns : ColumnMaps]

Clients == {"c1", "c2"}

NoResponse == [status |-> 0, message |-> <<>>, sql_query |-> <<>>, detail |-> <<>>]

\* The most recent call: its arguments, what it returned or raised, the
\* response sent (process_query) and the entry it replaced (add_table)
NoCall == [op |-> "none", natural_query |-> <<>>, table_name |-> <<>>,
           columns |-> <<>>, outcome |-> Return(<<>>), response |-> NoResponse,
           replaced |-> <<>>]

\* The registrations made so far, by table name: the columns of the latest
Record(log, table_name, columns) ==
    [t \in DOMAIN log \cup {table_name} |->
        IF t = table_name THEN columns ELSE log[t]]

---------------------------------------------------------------------------
(* Spec: calls on the generator and requests to the endpoint, one at a time *)

Init ==
    /\ tables = <<>>
    /\ latest = <<>>
    /\ call = NoCall
    /\ inflight = <<>>

AddTable(t, c) ==
    /\ tables' = add_table(tables, t, c)
    /\ latest' = Record(latest, t, c)
    /\ call' = [NoCall EXCEPT !.op = "add_table", !.table_name = t, !.columns = c,
                              !.replaced = IF t \in DOMAIN tables THEN <<tables[t]>>
                                           ELSE <<>>]
    /\ UNCHANGED inflight

ParseQuery(q, t) ==
    /\ call' = [NoCall EXCEPT !.op = "parse_query", !.natural_query = q,
                              !.table_name = t,
                              !.outcome = parse_query(tables, q, t)]
    /\ UNCHANGED <<tables, latest, inflight>>

\* One request handled from start to end: the coroutine has no await
ProcessQuery(r, stdout_ok) ==
    LET done == process_query(tables, r, stdout_ok)
    IN  /\ tables' = done.tables
        /\ latest' = IF stdout_ok THEN Record(latest, r.table_name, r.columns)
                     ELSE latest
        /\ call' = [NoCall EXCEPT !.op = "process_query",
                                  !.natural_query = r.natural_query,
                                  !.table_name = r.table_name,
                                  !.columns = r.columns,
                                  !.outcome = done.outcome,
                                  !.response = done.response]
        /\ UNCHANGED inflight

Next ==
    \/ \E t \in TableNames, c \in ColumnMaps : AddTable(t, c)
    \/ \E q \in Queries, t \in TableNames : ParseQuery(q, t)
    \/ \E r \in Requests, ok \in BOOLEAN : ProcessQuery(r, ok)

Spec == Init /\ [][Next]_vars

---------------------------------------------------------------------------
(* SpecPure: parse_query applied to one sentence on one registered table *)

InitPure ==
    /\ \E t \in TableNames, c \in ColumnMaps :
          /\ tables = add_table(<<>>, t, c)
          /\ latest = Record(<<>>, t, c)
          /\ \E q \in Sentences :
                call = [NoCall EXCEPT !.op = "input", !.natural_query = q,
                                      !.table_name = t]
    /\ inflight = <<>>

Generate ==
    /\ call.op = "input"
    /\ call' = [call EXCEPT !.op = "parse_query",
                            !.outcome = parse_query(tables, call.natural_query,
                                                    call.table_name)]
    /\ UNCHANGED <<tables, latest, inflight>>

NextPure == Generate

SpecPure == InitPure /\ [][NextPure]_vars

---------------------------------------------------------------------------
(* SpecHttp: two requests in flight on the shared query_generator; the     *)
(* event loop runs their handlers one after the other, in either order     *)

InitHttp ==
    /\ tables = <<>>
    /\ latest = <<>>
    /\ call = NoCall
    /\ inflight \in [Clients -> [request : Requests, response : {NoResponse}]]

\* The handler of client c's request, from start to end
Handle(c, stdout_ok) ==
    /\ inflight[c].response = NoResponse
    /\ LET r == inflight[c].request
           done == process_query(tables, r, stdout_ok)
       IN  /\ tables' = done.tables
           /\ latest' = IF stdout_ok THEN Record(latest, r.table_name, r.columns)
                        ELSE latest
           /\ call' = [NoCall EXCEPT !.op = "process_query",
                                     !.natural_query = r.natural_query,
                                     !.table_name = r.table_name,
                                     !.columns = r.columns,
                                     !.outcome = done.outcome,
                                     !.response = done.response]
           /\ inflight' = [inflight EXCEPT ![c].response = done.response]

NextHttp == \E c \in Clients, ok \in BOOLEAN : Handle(c, ok)

SpecHttp == InitHttp /\ [][NextHttp]_vars

---------------------------------------------------------------------------
(* Vocabulary of the properties *)

StartsWith(s, p) == Len(p) <= Len(s) /\ SubSeq(s, 1, Len(p)) = p
EndsWith(s, p) == Len(p) <= Len(s) /\ SubSeq(s, Len(s) - Len(p) + 1, Len(s)) = p

\* Number of places of s where w starts
CountOf(s, w) == Cardinality({i \in 1..(Len(s) - Len(w) + 1) : MatchAt(s, w, i)})

\* What follows the first occurrence of w in s
AfterFirst(s, w) == SubSeq(s, FindFirst(s, w) + Len(w), Len(s))

SelectKeywords == {<<"s", "h", "o", "w">>, <<"s", "e", "l", "e", "c", "t">>, <<"g", "e", "t">>, <<"f", "i", "n", "d">>, <<"d", "i", "s", "p", "l", "a", "y">>}
InsertKeywords == {<<"a", "d", "d">>, <<"i", "n", "s", "e", "r", "t">>, <<"c", "r", "e", "a", "t", "e">>}
UpdateKeywords == {<<"u", "p", "d", "a", "t", "e">>, <<"m", "o", "d", "i", "f", "y">>, <<"c", "h", "a", "n", "g", "e">>}
DeleteKeywords == {<<"d", "e", "l", "e", "t", "e">>, <<"r", "e", "m", "o", "v", "e">>}

Mentions(s, ks) == \E k \in ks : Contains(s, k)

NoKeyword(s) ==
    ~Mentions(s, SelectKeywords \cup InsertKeywords \cup UpdateKeywords \cup DeleteKeywords)

Statement(sql) ==
    IF StartsWith(sql, <<"S", "E", "L", "E", "C", "T", " ">>) THEN "SELECT"
    ELSE IF StartsWith(sql, <<"I", "N", "S", "E", "R", "T", " ", "I", "N", "T", "O", " ">>) THEN "INSERT"
    ELSE IF StartsWith(sql, <<"U", "P", "D", "A", "T", "E", " ">>) THEN "UPDATE"
    ELSE IF StartsWith(sql, <<"D", "E", "L", "E", "T", "E", " ", "F", "R", "O", "M", " ">>) THEN "DELETE"
    ELSE "other"

NotFoundError(t) == Raise("ValueError", <<"T", "a", "b", "l", "e", " ", "'">> \o t \o <<"'", " ", "n", "o", "t", " ", "f", "o", "u", "n", "d">>)
ClassificationError == Raise("ValueError", <<"C", "o", "u", "l", "d", " ", "n", "o", "t", " ", "d", "e", "t", "e", "r", "m", "i", "n", "e", " ", "q", "u", "e", "r", "y", " ", "t", "y", "p", "e">>)

\* parse_query has run on a registered table
Generated == call.op = "parse_query" /\ call.table_name \in DOMAIN tables
Returned == call.outcome.exc = "none"
Sentence == lower(call.natural_query)
Sql == call.outcome.value
Registered == tables[call.table_name]

\* The registered column names, in declaration order, whose lowercased form
\* occurs in the sentence s
RECURSIVE MentionedColumns(_, _)
MentionedColumns(d, s) ==
    IF d = <<>> THEN <<>>
    ELSE (IF Contains(s, lower(d[1][1])) THEN <<d[1][1]>> ELSE <<>>)
         \o MentionedColumns(Tail(d), s)

\* The text between "SELECT " and the first " FROM " of a SELECT statement
SelectList(sql) == SubSeq(sql, Len(<<"S", "E", "L", "E", "C", "T", " ">>) + 1, FindFirst(sql, <<" ", "F", "R", "O", "M", " ">>) - 1)

---------------------------------------------------------------------------
(* Properties of parse_query, under SpecPure *)

\* C1: the keyword sets are tried in the order SELECT, INSERT, UPDATE, DELETE
\* and the first set with a keyword occurring in the lowercased sentence
\* decides the statement type, whatever later sets also match.
C1_FirstMatchingSetWins ==
    Generated =>
        /\ Mentions(Sentence, SelectKeywords)
              => Returned /\ Statement(Sql) = "SELECT"
        /\ ~Mentions(Sentence, SelectKeywords) /\ Mentions(Sentence, InsertKeywords)
              => Returned /\ Statement(Sql) = "INSERT"
        /\ ~Mentions(Sentence, SelectKeywords \cup InsertKeywords)
           /\ Mentions(Sentence, UpdateKeywords)
              => Returned /\ Statement(Sql) = "UPDATE"
        /\ ~Mentions(Sentence, SelectKeywords \cup InsertKeywords \cup UpdateKeywords)
           /\ Mentions(Sentence, DeleteKeywords)
              => Returned /\ Statement(Sql) = "DELETE"

\* A sentence with a DELETE keyword and the substring "select" gave a SELECT
C1_Witness ==
    /\ Generated
    /\ Mentions(Sentence, DeleteKeywords)
    /\ Contains(Sentence, <<"s", "e", "l", "e", "c", "t">>)
    /\ Returned
    /\ Statement(Sql) = "SELECT"

\* C2: a SELECT generated from a sentence containing "where" ends with a
\* single WHERE segment holding everything that follows the first "where" of
\* the lowercased sentence, trimmed; without "where" there is no WHERE clause.
C2_WhereClauseIsRestOfSentence ==
    Generated /\ Returned /\ Statement(Sql) = "SELECT" =>
        IF Contains(Sentence, <<"w", "h", "e", "r", "e">>)
        THEN /\ EndsWith(Sql, <<" ", "W", "H", "E", "R", "E", " ">> \o strip(AfterFirst(Sentence, <<"w", "h", "e", "r", "e">>)) \o <<";">>)
             /\ CountOf(Sql, <<" ", "W", "H", "E", "R", "E", " ">>) = 1
        ELSE ~Contains(Sql, <<" ", "W", "H", "E", "R", "E", " ">>)

\* C3 as stated: INSERT and UPDATE hold len(columns) placeholders, DELETE one.
C3_PlaceholdersAsStated ==
    Generated /\ Returned =>
        /\ Statement(Sql) \in {"INSERT", "UPDATE"}
              => CountOf(Sql, <<"%", "s">>) = Len(Registered)
        /\ Statement(Sql) = "DELETE" => CountOf(Sql, <<"%", "s">>) = 1

\* C3, amended: INSERT holds len(columns) placeholders, UPDATE holds
\* len(columns) + 1 (one per column and one in its fixed WHERE clause),
\* DELETE holds one.
C3_Placeholders ==
    Generated /\ Returned =>
        /\ Statement(Sql) = "INSERT" => CountOf(Sql, <<"%", "s">>) = Len(Registered)
        /\ Statement(Sql) = "UPDATE" => CountOf(Sql, <<"%", "s">>) = Len(Registered) + 1
        /\ Statement(Sql) = "DELETE" => CountOf(Sql, <<"%", "s">>) = 1

\* An UPDATE on a table with columns
C3_Witness ==
    /\ Generated
    /\ Returned
    /\ Statement(Sql) = "UPDATE"
    /\ Len(Registered) = 2
    /\ CountOf(Sql, <<"%", "s">>) = 3

\* C4: the SELECT list is the registered column names whose lowercased form
\* occurs in the lowercased sentence, in declaration order, each once and
\* spelled as registered; no other column is listed.
C4_SelectList ==
    Generated /\ Returned /\ Statement(Sql) = "SELECT" =>
        LET mentioned == MentionedColumns(Registered, Sentence)
        IN  SelectList(Sql) = IF mentioned = <<>> THEN <<"*">>
                              ELSE join(<<",", " ">>, mentioned)

\* Two columns mentioned in the sentence against their declaration order,
\* the first of them registered with an uppercase letter
C4_Witness ==
    /\ Generated
    /\ Returned
    /\ Statement(Sql) = "SELECT"
    /\ Len(Registered) = 2
    /\ LET first == Registered[1][1]
           second == Registered[2][1]
       IN  /\ first # lower(first)
           /\ Contains(Sentence, lower(first))
           /\ Contains(Sentence, second)
           /\ FindFirst(Sentence, second) < FindFirst(Sentence, lower(first))
           /\ SelectList(Sql) = first \o <<",", " ">> \o second

\* C5 as stated: a SELECT keyword and no column name in the sentence give
\* exactly SELECT * FROM T;
C5_SelectStarAsStated ==
    Generated /\ Mentions(Sentence, SelectKeywords)
              /\ MentionedColumns(Registered, Sentence) = <<>>
        => Returned /\ Sql = <<"S", "E", "L", "E", "C", "T", " ", "*", " ", "F", "R", "O", "M", " ">> \o call.table_name \o <<";">>

\* C5, amended: a SELECT keyword, no column name and no "where" in the
\* sentence give exactly SELECT * FROM T;
C5_SelectStar ==
    Generated /\ Mentions(Sentence, SelectKeywords)
              /\ MentionedColumns(Registered, Sentence) = <<>>
              /\ ~Contains(Sentence, <<"w", "h", "e", "r", "e">>)
        => Returned /\ Sql = <<"S", "E", "L", "E", "C", "T", " ", "*", " ", "F", "R", "O", "M", " ">> \o call.table_name \o <<";">>

\* A table registered with an empty column map, queried with a SELECT keyword
C5_Witness ==
    /\ Generated
    /\ Registered = <<>>
    /\ Mentions(Sentence, SelectKeywords)
    /\ ~Contains(Sentence, <<"w", "h", "e", "r", "e">>)
    /\ Returned
    /\ Sql = <<"S", "E", "L", "E", "C", "T", " ", "*", " ", "F", "R", "O", "M", " ">> \o call.table_name \o <<";">>

---------------------------------------------------------------------------
(* Properties of the registry and of the calls on it, under Spec *)

\* A registry that holds the one entry t -> d
Only(t, d) == Record(<<>>, t, d)

\* C6: each registry entry is the column map of the most recent add_table
\* call for its name, whole and with nothing of an earlier map, and a
\* statement generated for a table is the one its latest map alone gives.
C6_LatestMapOnly ==
    /\ tables = latest
    /\ call.op \in {"parse_query", "process_query"} /\ Returned
          => /\ call.table_name \in DOMAIN latest
             /\ Sql = parse_query(Only(call.table_name, latest[call.table_name]),
                                  call.natural_query, call.table_name).value

\* add_table has replaced a map holding a column name the new map lacks
C6_Witness ==
    /\ call.op = "add_table"
    /\ call.replaced # <<>>
    /\ \E name \in Range(keys(call.replaced[1])) : name \notin Range(keys(call.columns))
    /\ call.columns # <<>>
    /\ tables[call.table_name] = call.columns

\* C7: parse_query on a table name never registered raises "Table '<name>'
\* not found" whatever the sentence, and a call returns a statement only
\* for a table name registered before.
C7_UnregisteredTable ==
    /\ call.op = "parse_query" /\ call.table_name \notin DOMAIN latest
          => call.outcome = NotFoundError(call.table_name)
    /\ call.op \in {"parse_query", "process_query"} /\ Returned
          => call.table_name \in DOMAIN latest

\* A sentence without keyword on an unregistered table: not found, while
\* another table is registered
C7_Witness ==
    /\ call.op = "parse_query"
    /\ call.table_name \notin DOMAIN latest
    /\ latest # <<>>
    /\ NoKeyword(Sentence)
    /\ call.outcome = NotFoundError(call.table_name)
    /\ call.outcome # ClassificationError

\* generate has run in the most recent call, on a registered table
Classified ==
    \/ call.op = "parse_query" /\ call.table_name \in DOMAIN tables
    \/ call.op = "process_query" /\ call.outcome.exc \in {"none", "ValueError"}

\* C8: on a registered table a sentence without keyword raises "Could not
\* determine query type"; the endpoint answers a ValueError with status 400
\* and its message as detail, and answers 500 only to other exceptions.
C8_ClassificationError ==
    /\ Classified /\ NoKeyword(Sentence) => call.outcome = ClassificationError
    /\ call.op = "process_query" =>
          /\ call.outcome.exc = "ValueError"
                => call.response = [status |-> 400, message |-> <<>>,
                                    sql_query |-> <<>>, detail |-> call.outcome.value]
          /\ call.response.status = 500 => call.outcome.exc \notin {"none", "ValueError"}
          /\ call.response.status = 200 => Returned

\* A request whose sentence has no keyword, answered 400
C8_Witness ==
    /\ call.op = "process_query"
    /\ NoKeyword(Sentence)
    /\ call.response.status = 400
    /\ call.response.detail = <<"C", "o", "u", "l", "d", " ", "n", "o", "t", " ", "d", "e", "t", "e", "r", "m", "i", "n", "e", " ", "q", "u", "e", "r", "y", " ", "t", "y", "p", "e">>

\* C10: parse_query leaves the registry as it is, add_table changes the
\* entry of its table name only, and a request whose sentence cannot be
\* classified leaves its column map registered.
C10_Frame ==
    [][/\ call'.op = "parse_query" => tables' = tables
       /\ call'.op = "add_table" =>
             /\ DOMAIN tables' = DOMAIN tables \cup {call'.table_name}
             /\ \A t \in DOMAIN tables \ {call'.table_name} : tables'[t] = tables[t]
       /\ call'.op = "process_query" /\ call'.outcome = ClassificationError =>
             /\ DOMAIN tables' = DOMAIN tables \cup {call'.table_name}
             /\ tables'[call'.table_name] = call'.columns
             /\ \A t \in DOMAIN tables \ {call'.table_name} : tables'[t] = tables[t]
      ]_vars

\* A request answered 400 for its sentence, its columns registered beside
\* another table's
C10_Witness ==
    /\ call.op = "process_query"
    /\ call.outcome = ClassificationError
    /\ call.response.status = 400
    /\ call.columns # <<>>
    /\ tables[call.table_name] = call.columns
    /\ DOMAIN tables = TableNames

---------------------------------------------------------------------------
(* Property of concurrent requests, under SpecHttp *)

\* C9: every statement the endpoint returns is the one the request's own
\* column map alone gives, whatever other request for the same table is in
\* flight, and no request is answered "Table ... not found".
C9_OwnColumnMap ==
    \A c \in DOMAIN inflight :
        LET r == inflight[c].request
            resp == inflight[c].response
        IN  /\ resp.status = 200 =>
                  resp.sql_query = parse_query(Only(r.table_name, r.columns),
                                               r.natural_query, r.table_name).value
            /\ resp.detail # NotFoundError(r.table_name).value

\* Two requests for one table with different column maps, both answered
\* with an INSERT over their own columns
C9_Witness ==
    \E c, d \in DOMAIN inflight :
        /\ inflight[c].request.table_name = inflight[d].request.table_name
        /\ keys(inflight[c].request.columns) # keys(inflight[d].request.columns)
        /\ inflight[c].request.columns # <<>>
        /\ inflight[d].request.columns # <<>>
        /\ inflight[c].response.status = 200
        /\ inflight[d].response.status = 200
        /\ Statement(inflight[c].response.sql_query) = "INSERT"
        /\ Statement(inflight[d].response.sql_query) = "INSERT"
        /\ inflight[c].response.sql_query # inflight[d].response.sql_query

===========================================================================
